---------------------------- MODULE Spec2Model ----------------------------
(***************************************************************************)
(* Construction targets of the PRISM/SILICON plugins: the grid index of    *)
(* BaseConstructTarget, the construction graph (graph_block_add,           *)
(* graph_block_remove, the shell passes) and the structure generators     *)
(* (Beam1Prism, MixedBeamPrism, Beam1Pyramid, Ramp; RectPrismTarget and   *)
(* RampTarget of SILICON), and the Nest variable of the TITAN project.     *)
(*                                                                         *)
(* A coordinate (Vector3D) is a tuple <<x, y, z>>; the extent's dims are   *)
(* the tuple <<X, Y, Z>>.  The networkx graph is the pair (nodes, edges):  *)
(* nodes maps a vertex descriptor to the node's attributes, edges maps an  *)
(* unordered pair {a, b} of descriptors to the edge's weight.              *)
(***************************************************************************)
EXTENDS Integers, Sequences, FiniteSets, TLC

VARIABLES
    dims,     \* self.extent.dims: the bounding box <<X, Y, Z>>
    nodes,    \* graph nodes: descriptor -> attributes
    edges,    \* graph edges: {descriptor, descriptor} -> weight
    order,    \* graph nodes in the order of their insertion (the order of iteration)
    opCount,  \* number of graph operations called so far
    lastOp,   \* the last graph operation called, with its outcome
    pre,      \* the graph as it was when the last operation was called
    before,   \* the operation called before the last one, and the graph it was called on
    vds,      \* results of calc_vertex_descriptor so far: coordinate -> descriptor
    back,     \* results of calc_vertex_coord so far: descriptor -> coordinate
    target,   \* the construction target: class, orientation
    pc,       \* position of the target: none, constructed, ctor_failed, phases of gen_graph
    todo,     \* the graph_block_add calls the running loop nest still has to make
    err,      \* the exception that ended the constructor or gen_graph ("" when none)
    within,   \* the last coord_within_bb call: its argument and its result
    uuids,    \* results of uuid so far: <<class, target id>> -> string
    nest      \* the Nest variable: its arguments, self.tag_adds, what its calls returned

vars == <<dims, nodes, edges, order, opCount, lastOp, pre, before, vds, back, target, pc, todo, err,
          within, uuids, nest>>

---------------------------------------------------------------------------
(* Bounds *)

MaxX == 4
MaxY == 3
MaxZ == 2
MaxCells == 2
MaxOps == 2
MaxQueries == 2

---------------------------------------------------------------------------
(* Vector3D, ArenaExtent *)

xsize == dims[1]
ysize == dims[2]
zsize == dims[3]

VecAdd(a, b) == <<a[1] + b[1], a[2] + b[2], a[3] + b[3]>>
VecMul(a, k) == <<a[1] * k, a[2] * k, a[3] * k>>

xplus1 == <<1, 0, 0>>
xminus1 == <<-1, 0, 0>>
yplus1 == <<0, 1, 0>>
yminus1 == <<0, -1, 0>>
zplus1 == <<0, 0, 1>>
zminus1 == <<0, 0, -1>>

\* Python's int(a / b) for b > 0: the quotient truncated towards zero
IntDiv(a, b) == IF a >= 0 THEN a \div b ELSE -((-a) \div b)

\* every coordinate a generator or a caller can name inside the box
Coords == {<<x, y, z>> : x \in 0..(xsize - 1), y \in 0..(ysize - 1), z \in 0..(zsize - 1)}

---------------------------------------------------------------------------
(* Grid index *)

calc_vertex_descriptor(n) == n[3] * xsize * ysize + n[2] * ysize + n[1]

\* coord_within_bb as it would be if the upper bounds were inclusive
coord_within_bb_inclusive(c) ==
    IF c[1] < 0 \/ c[2] < 0 \/ c[3] < 0 THEN FALSE
    ELSE IF c[1] > dims[1] \/ c[2] > dims[2] \/ c[3] > dims[3] THEN FALSE
    ELSE TRUE

coord_within_bb(c) ==
    IF c[1] < 0 \/ c[2] < 0 \/ c[3] < 0 THEN FALSE
    ELSE IF c[1] >= dims[1] \/ c[2] >= dims[2] \/ c[3] >= dims[3] THEN FALSE
    ELSE TRUE

calc_vertex_coord(vd) ==
    LET z == IntDiv(vd, xsize * ysize)
        vd2 == vd - (z * xsize * ysize)
        y == IntDiv(vd2, xsize)
        x == vd2 % xsize
    IN  <<x, y, z>>

---------------------------------------------------------------------------
(* Orientation: the rotation about Z, given as the angle string it is      *)
(* constructed from ("0" east, "PI" west, "PI/2" north, "3PI/2" south)     *)

Orientations == {"0", "PI", "PI/2", "3PI/2"}

is_E(o) == o = "0"
is_W(o) == o = "PI"
is_N(o) == o = "PI/2"
is_S(o) == o = "3PI/2"
is_EW(o) == is_E(o) \/ is_W(o)
is_NS(o) == is_N(o) \/ is_S(o)

---------------------------------------------------------------------------
(* Construction graph *)

\* the block types graph_block_add knows the extent of
BlockTypes == {"vbeam1", "beam1", "beam2", "beam3"}

extents(block_type) ==
    CASE block_type = "vbeam1" -> 1
      [] block_type = "beam1" -> 1
      [] block_type = "beam2" -> 2
      [] block_type = "beam3" -> 3

\* the four attributes of a node; the anchor string "x,y,z" is kept as the
\* coordinate it is formatted from, the colour is the one of the block type
NodeAttrs(block_type, c, z_rot) ==
    [type |-> block_type, anchor |-> c, zrot |-> z_rot, color |-> block_type]

EmptyGraph == [nodes |-> <<>>, edges |-> <<>>]

has_node(N, vd) == vd \in DOMAIN N

\* networkx add_node: a new node, or the attributes of an existing one updated
add_node(N, vd, attrs) ==
    [d \in (DOMAIN N) \cup {vd} |-> IF d = vd THEN attrs ELSE N[d]]

\* networkx add_edge between two nodes of the graph: a new edge, or the
\* weight of the existing one overwritten
add_edge(E, a, b, w) ==
    [p \in (DOMAIN E) \cup {{a, b}} |-> IF p = {a, b} THEN w ELSE E[p]]

\* remove_node as it would be if the incident edges were left behind
remove_node_keep_edges(g, vd) ==
    [nodes |-> [d \in (DOMAIN g.nodes) \ {vd} |-> g.nodes[d]],
     edges |-> g.edges]

\* networkx remove_node: the node and every edge incident to it
remove_node(g, vd) ==
    [nodes |-> [d \in (DOMAIN g.nodes) \ {vd} |-> g.nodes[d]],
     edges |-> [p \in {q \in DOMAIN g.edges : vd \notin q} |-> g.edges[p]]]

\* the direction a block longer than one cell extends in
ForwardStep(z_rot) ==
    CASE is_N(z_rot) -> yplus1
      [] is_S(z_rot) -> yminus1
      [] is_E(z_rot) -> xplus1
      [] is_W(z_rot) -> xminus1

\* the unit steps whose nodes the anchor is connected to with weight 1
origin_anchor_neighbors(block_type, z_rot) ==
    IF extents(block_type) > 1
    THEN CASE is_N(z_rot) -> {zminus1, xplus1, xminus1, yminus1}
           [] is_S(z_rot) -> {zminus1, xplus1, xminus1, yplus1}
           [] is_E(z_rot) -> {zminus1, yplus1, yminus1, xminus1}
           [] is_W(z_rot) -> {zminus1, yplus1, yminus1, xplus1}
    ELSE {yplus1, xplus1, yminus1, xminus1, zminus1, zplus1}

\* graph_block_add after its assertion as it would be if the neighbour loop
\* did not skip the neighbours that are not in the graph: add_edge creates
\* each of them as a node without attributes
graph_block_add_body_eager(g, block_type, c, z_rot) ==
    LET vd == calc_vertex_descriptor(c)
        n1 == add_node(g.nodes, vd, NodeAttrs(block_type, c, z_rot))
        long == extents(block_type) > 1
        extent_anchor_neighbor ==
            VecAdd(c, VecMul(ForwardStep(z_rot), extents(block_type)))
        extent_neighbor_vd == calc_vertex_descriptor(extent_anchor_neighbor)
        n2 == IF long /\ ~has_node(n1, extent_neighbor_vd)
              THEN add_node(n1, extent_neighbor_vd,
                            NodeAttrs("vbeam1", extent_anchor_neighbor, z_rot))
              ELSE n1
        e1 == IF long
              THEN add_edge(g.edges, vd, extent_neighbor_vd, extents(block_type))
              ELSE g.edges
        reached == {calc_vertex_descriptor(VecAdd(c, n)) :
                      n \in {m \in origin_anchor_neighbors(block_type, z_rot) :
                               coord_within_bb(VecAdd(c, m))}}
        linked == {{vd, d} : d \in reached}
        n3 == [d \in (DOMAIN n2) \cup reached |->
                 IF d \in DOMAIN n2 THEN n2[d] ELSE NodeAttrs("", <<>>, "")]
        e2 == [p \in (DOMAIN e1) \cup linked |-> IF p \in linked THEN 1 ELSE e1[p]]
    IN  [result |-> "ok", nodes |-> n3, edges |-> e2]

\* graph_block_add after its assertion: the node, the placeholder and the
\* edges it adds to graph g
graph_block_add_body(g, block_type, c, z_rot) ==
    LET vd == calc_vertex_descriptor(c)
        n1 == add_node(g.nodes, vd, NodeAttrs(block_type, c, z_rot))
        long == extents(block_type) > 1
        extent_anchor_neighbor ==
            VecAdd(c, VecMul(ForwardStep(z_rot), extents(block_type)))
        extent_neighbor_vd == calc_vertex_descriptor(extent_anchor_neighbor)
        n2 == IF long /\ ~has_node(n1, extent_neighbor_vd)
              THEN add_node(n1, extent_neighbor_vd,
                            NodeAttrs("vbeam1", extent_anchor_neighbor, z_rot))
              ELSE n1
        e1 == IF long
              THEN add_edge(g.edges, vd, extent_neighbor_vd, extents(block_type))
              ELSE g.edges
        \* every edge of the loop has weight 1, so the order of the
        \* neighbours in the list does not show in the result
        linked == {{vd, calc_vertex_descriptor(VecAdd(c, n))} :
                      n \in {m \in origin_anchor_neighbors(block_type, z_rot) :
                               /\ coord_within_bb(VecAdd(c, m))
                               /\ calc_vertex_descriptor(VecAdd(c, m)) \in DOMAIN n2}}
        e2 == [p \in (DOMAIN e1) \cup linked |-> IF p \in linked THEN 1 ELSE e1[p]]
    IN  [result |-> "ok", nodes |-> n2, edges |-> e2]

\* graph_block_add as it would be if the assertion came after add_node
graph_block_add_late_assert(g, block_type, c, z_rot) ==
    IF has_node(g.nodes, calc_vertex_descriptor(c))
    THEN [result |-> "AssertionError",
          nodes |-> add_node(g.nodes, calc_vertex_descriptor(c),
                             NodeAttrs(block_type, c, z_rot)),
          edges |-> g.edges]
    ELSE graph_block_add_body(g, block_type, c, z_rot)

\* graph_block_add on graph g: the outcome and the graph it leaves
graph_block_add(g, block_type, c, z_rot) ==
    IF has_node(g.nodes, calc_vertex_descriptor(c))
    THEN [result |-> "AssertionError", nodes |-> g.nodes, edges |-> g.edges]
    ELSE graph_block_add_body(g, block_type, c, z_rot)

\* the nodes of the graph in the order networkx iterates them, which is the
\* order of their insertion, after graph_block_add on nodes N in order ord:
\* the anchor's node first, then the placeholder if one was synthesized
order_after_add(ord, N, block_type, c, z_rot) ==
    LET vd == calc_vertex_descriptor(c)
        extent_neighbor_vd ==
            calc_vertex_descriptor(VecAdd(c, VecMul(ForwardStep(z_rot), extents(block_type))))
    IN  IF has_node(N, vd) THEN ord
        ELSE IF extents(block_type) > 1 /\ extent_neighbor_vd \notin (DOMAIN N) \cup {vd}
        THEN ord \o <<vd, extent_neighbor_vd>>
        ELSE Append(ord, vd)

\* the order of iteration after remove_node of vd
order_after_remove(ord, vd) == SelectSeq(ord, LAMBDA d : d # vd)

\* graph_block_remove on graph g: networkx raises when the node is missing
graph_block_remove(g, c) ==
    LET vd == calc_vertex_descriptor(c)
    IN  IF ~has_node(g.nodes, vd)
        THEN [result |-> "NetworkXError", nodes |-> g.nodes, edges |-> g.edges]
        ELSE [result |-> "ok"] @@ remove_node(g, vd)

---------------------------------------------------------------------------
(* State after construction *)

NoOp == [op |-> "none", block_type |-> "", c |-> <<0, 0, 0>>, z_rot |-> "", result |-> ""]
NoTarget == [cls |-> "none", orientation |-> ""]
NoCall == [called |-> FALSE, c |-> <<0, 0, 0>>, result |-> FALSE]
NoNest == [src |-> "none"]

\* everything but the bounding box
Idle ==
    /\ nodes = <<>>
    /\ edges = <<>>
    /\ order = <<>>
    /\ opCount = 0
    /\ lastOp = NoOp
    /\ pre = EmptyGraph
    /\ before = [op |-> NoOp, graph |-> EmptyGraph]
    /\ vds = <<>>
    /\ back = <<>>
    /\ target = NoTarget
    /\ pc = "none"
    /\ todo = <<>>
    /\ err = ""
    /\ within = NoCall
    /\ uuids = <<>>
    /\ nest = NoNest

\* BaseConstructTarget.__init__ with a bounding box of at most MaxCells cells,
\* and an empty nx.Graph() of the caller
Init ==
    /\ dims \in {d \in (1..MaxCells) \X (1..MaxCells) \X (1..MaxCells) :
                    d[1] * d[2] * d[3] <= MaxCells}
    /\ Idle

---------------------------------------------------------------------------
(* Graph operations called on the target *)

GraphBlockAdd ==
    /\ opCount < MaxOps
    /\ \E block_type \in BlockTypes, c \in Coords, z_rot \in Orientations :
         LET r == graph_block_add([nodes |-> nodes, edges |-> edges], block_type, c, z_rot)
         IN  /\ nodes' = r.nodes
             /\ edges' = r.edges
             /\ order' = order_after_add(order, nodes, block_type, c, z_rot)
             /\ lastOp' = [op |-> "add", block_type |-> block_type, c |-> c,
                           z_rot |-> z_rot, result |-> r.result]
    /\ pre' = [nodes |-> nodes, edges |-> edges]
    /\ before' = [op |-> lastOp, graph |-> pre]
    /\ opCount' = opCount + 1
    /\ UNCHANGED <<dims, vds, back, target, pc, todo, err, within, uuids, nest>>

GraphBlockRemove ==
    /\ opCount < MaxOps
    /\ \E c \in Coords :
         LET r == graph_block_remove([nodes |-> nodes, edges |-> edges], c)
         IN  /\ nodes' = r.nodes
             /\ edges' = r.edges
             /\ order' = order_after_remove(order, calc_vertex_descriptor(c))
             /\ lastOp' = [op |-> "remove", block_type |-> "", c |-> c,
                           z_rot |-> "", result |-> r.result]
    /\ pre' = [nodes |-> nodes, edges |-> edges]
    /\ before' = [op |-> lastOp, graph |-> pre]
    /\ opCount' = opCount + 1
    /\ UNCHANGED <<dims, vds, back, target, pc, todo, err, within, uuids, nest>>

Next ==
    \/ GraphBlockAdd
    \/ GraphBlockRemove

Spec == Init /\ [][Next]_vars

---------------------------------------------------------------------------
(* Grid index queries *)

\* BaseConstructTarget.__init__ with any bounding box of the bounds
InitIndex ==
    /\ dims \in (1..MaxX) \X (1..MaxY) \X (1..MaxZ)
    /\ Idle

Range(f) == {f[a] : a \in DOMAIN f}

CalcVertexDescriptor ==
    /\ Cardinality(DOMAIN vds) < MaxQueries
    /\ \E c \in Coords \ DOMAIN vds :
         vds' = [a \in (DOMAIN vds) \cup {c} |->
                    IF a = c THEN calc_vertex_descriptor(c) ELSE vds[a]]
    /\ UNCHANGED <<dims, nodes, edges, order, opCount, lastOp, pre, before, back, target, pc, todo, err, within, uuids, nest>>

CalcVertexCoord ==
    /\ \E vd \in Range(vds) \ DOMAIN back :
         back' = [a \in (DOMAIN back) \cup {vd} |->
                    IF a = vd THEN calc_vertex_coord(vd) ELSE back[a]]
    /\ UNCHANGED <<dims, nodes, edges, order, opCount, lastOp, pre, before, vds, target, pc, todo, err, within, uuids, nest>>

NextIndex ==
    \/ CalcVertexDescriptor
    \/ CalcVertexCoord

SpecIndex == InitIndex /\ [][NextIndex]_vars

---------------------------------------------------------------------------
(* Structure generators *)

kRAMP_LENGTH_RATIO == 2

\* the orientation strings a RampTarget spec may carry: the four supported
\* ones and one that is none of them
SpecOrientations == Orientations \cup {"PI/4"}

\* Ramp._structure_sanity_checks as it would be if both branches checked X
Ramp_structure_sanity_checks_x(o) ==
    IF xsize % kRAMP_LENGTH_RATIO = 0 THEN "" ELSE "AssertionError"

\* Ramp._structure_sanity_checks: the exception it ends with, "" when none
Ramp_structure_sanity_checks(o) ==
    IF is_EW(o)
    THEN IF xsize % kRAMP_LENGTH_RATIO = 0 THEN "" ELSE "AssertionError"
    ELSE IF is_NS(o)
    THEN IF ysize % kRAMP_LENGTH_RATIO = 0 THEN "" ELSE "AssertionError"
    ELSE ""

\* "assert False" of the SILICON plugin on an orientation that is none of
\* the four: its message reads self.spec.orientation, and spec is a dict
BadOrientation == "AttributeError"

\* RampTarget._structure_sanity_checks: the exception it ends with, "" when none
RampTarget_structure_sanity_checks(o) ==
    IF o \in {"0", "PI"}
    THEN IF xsize % kRAMP_LENGTH_RATIO = 0 THEN "" ELSE "AssertionError"
    ELSE IF o \in {"PI/2", "3PI/2"}
    THEN IF ysize % kRAMP_LENGTH_RATIO = 0 THEN "" ELSE "AssertionError"
    ELSE BadOrientation

\* the constructor of each class: the exception it ends with, "" when none
CtorError(cls, o) ==
    CASE cls = "Ramp" -> Ramp_structure_sanity_checks(o)
      [] cls = "RampTarget" -> RampTarget_structure_sanity_checks(o)
      [] OTHER -> ""

\* range(0, n) has no element when n <= 0
RangeLen(n) == IF n > 0 THEN n ELSE 0

Call(block_type, c, z_rot) == [block_type |-> block_type, c |-> c, z_rot |-> z_rot]

\* Beam1Prism.gen_graph: the graph_block_add calls of its loop nest, in order
Beam1Prism_calls(o) ==
    IF is_EW(o)
    THEN [i \in 1..(xsize * ysize * zsize) |->
            Call("beam1",
                 <<(i - 1) \div (ysize * zsize), ((i - 1) \div zsize) % ysize, (i - 1) % zsize>>,
                 o)]
    ELSE IF is_NS(o)
    THEN [i \in 1..(xsize * ysize * zsize) |->
            Call("beam1",
                 <<((i - 1) \div zsize) % xsize, (i - 1) \div (xsize * zsize), (i - 1) % zsize>>,
                 o)]
    ELSE <<>>

\* Ramp._gen_beam1_blocks: the calls of layers z..zsize-1, in order; the
\* rotation handed over is the integer 1
RECURSIVE Ramp_beam1_calls(_, _)
Ramp_beam1_calls(o, z) ==
    IF z >= zsize THEN <<>>
    ELSE LET corr == z + 1
             layer ==
               IF is_EW(o)
               THEN [i \in 1..(RangeLen(xsize - kRAMP_LENGTH_RATIO * corr) * ysize) |->
                       Call("beam1", <<(i - 1) \div ysize, (i - 1) % ysize, z>>, "1")]
               ELSE IF is_NS(o)
               THEN [i \in 1..(RangeLen(ysize - kRAMP_LENGTH_RATIO * corr) * xsize) |->
                       Call("beam1", <<(i - 1) % xsize, (i - 1) \div xsize, z>>, "1")]
               ELSE <<>>
         IN  layer \o Ramp_beam1_calls(o, z + 1)

\* Ramp._gen_ramp_blocks: the exception its first iteration ends with. East-west,
\* graph_block_add is called without its z_rot argument; north-south, corr is
\* read before any assignment. "" when the loops have no iteration.
Ramp_gen_ramp_blocks(o) ==
    IF is_EW(o)
    THEN IF zsize > 0 /\ ysize > 0 THEN "TypeError" ELSE ""
    ELSE IF is_NS(o)
    THEN IF zsize > 0 THEN "UnboundLocalError" ELSE ""
    ELSE ""

\* Beam1Pyramid.gen_graph: the calls of layers z..zsize-1, in order; layer z
\* spans range(z, xsize - z) by range(z, ysize - z)
RECURSIVE Beam1Pyramid_calls(_, _)
Beam1Pyramid_calls(o, z) ==
    IF z >= zsize THEN <<>>
    ELSE LET nx == RangeLen(xsize - 2 * z)
             ny == RangeLen(ysize - 2 * z)
             layer ==
               IF is_EW(o)
               THEN [i \in 1..(nx * ny) |->
                       Call("beam1", <<z + ((i - 1) \div ny), z + ((i - 1) % ny), z>>, o)]
               ELSE IF is_NS(o)
               THEN [i \in 1..(nx * ny) |->
                       Call("beam1", <<z + ((i - 1) % nx), z + ((i - 1) \div nx), z>>, o)]
               ELSE <<>>
         IN  layer \o Beam1Pyramid_calls(o, z + 1)

\* MixedBeamPrism.gen_graph as it would be if it returned a graph
MixedBeamPrism_gen_graph_returns == ""

\* MixedBeamPrism.gen_graph: the exception it ends with ("Error: Cannot
\* generate mixed graph--manual specification required")
MixedBeamPrism_gen_graph == "NotImplementedError"

\* The graph of the SILICON plugin is keyed by the coordinate itself; a node
\* carries the attributes color and pos, and none when networkx created it
\* as the far end of an edge.
NoAttrs == [color |-> "", pos |-> <<>>]

\* networkx add_edge(c, dest, weight): the edge, and dest as a node without
\* attributes if the graph has no such node
silicon_add_edge(g, c, dest, w) ==
    [nodes |-> IF has_node(g.nodes, dest) THEN g.nodes ELSE add_node(g.nodes, dest, NoAttrs),
     edges |-> add_edge(g.edges, c, dest, w),
     order |-> IF has_node(g.nodes, dest) THEN g.order ELSE Append(g.order, dest)]

\* the anchor node and the three edges of _graph_cube_add and _graph_ramp_add,
\* for a block xratio by yratio by 1 of the given colour
silicon_anchor_add(g, color, xratio, yratio, c) ==
    LET zratio == 1
        g0 == [nodes |-> add_node(g.nodes, c, [color |-> color, pos |-> c]),
               edges |-> g.edges,
               order |-> IF has_node(g.nodes, c) THEN g.order ELSE Append(g.order, c)]
        g1 == IF c[1] < xsize - xratio
              THEN silicon_add_edge(g0, c, <<c[1] + xratio, c[2], c[3]>>, xratio)
              ELSE g0
        g2 == IF c[2] < ysize - yratio
              THEN silicon_add_edge(g1, c, <<c[1], c[2] + yratio, c[3]>>, yratio)
              ELSE g1
    IN  IF c[3] < zsize - zratio
        THEN silicon_add_edge(g2, c, <<c[1], c[2], c[3] + zratio>>, zratio)
        ELSE g2

graph_cube_add(g, c) == silicon_anchor_add(g, "b", 1, 1, c)

\* _graph_ramp_add for spec['orientation'] = o, one of the four
graph_ramp_add(g, length_ratio, c, o) ==
    IF o \in {"0", "PI"}
    THEN silicon_anchor_add(g, "r", length_ratio, 1, c)
    ELSE silicon_anchor_add(g, "r", 1, length_ratio, c)

\* graph_block_add of the SILICON plugin
silicon_graph_block_add(g, block_type, length_ratio, c, o) ==
    IF block_type = "cube" THEN graph_cube_add(g, c)
    ELSE IF block_type = "ramp" THEN graph_ramp_add(g, length_ratio, c, o)
    ELSE g

\* a graph_block_add call of the SILICON plugin
SiliconCall(block_type, length_ratio, c) ==
    [block_type |-> block_type, length_ratio |-> length_ratio, c |-> c]

\* RectPrismTarget.gen_gml: the calls of its loop nest, in order
RectPrismTarget_calls(o) ==
    IF o \in {"0", "PI"}
    THEN [i \in 1..(xsize * ysize * zsize) |->
            SiliconCall("cube", 1,
                <<(i - 1) \div (ysize * zsize), ((i - 1) \div zsize) % ysize, (i - 1) % zsize>>)]
    ELSE [i \in 1..(xsize * ysize * zsize) |->
            SiliconCall("cube", 1,
                <<((i - 1) \div zsize) % xsize, (i - 1) \div (xsize * zsize), (i - 1) % zsize>>)]

\* RampTarget._gen_cube_blocks: the calls of layers z..zsize-1, in order
RECURSIVE RampTarget_cube_calls(_, _)
RampTarget_cube_calls(o, z) ==
    IF z >= zsize THEN <<>>
    ELSE LET corr == z + 1
             layer ==
               IF o \in {"0", "PI"}
               THEN [i \in 1..(RangeLen(xsize - kRAMP_LENGTH_RATIO * corr) * ysize) |->
                       SiliconCall("cube", 1, <<(i - 1) \div ysize, (i - 1) % ysize, z>>)]
               ELSE IF o \in {"PI/2", "3PI/2"}
               THEN [i \in 1..(RangeLen(ysize - kRAMP_LENGTH_RATIO * corr) * xsize) |->
                       SiliconCall("cube", 1, <<(i - 1) % xsize, (i - 1) \div xsize, z>>)]
               ELSE <<>>
         IN  layer \o RampTarget_cube_calls(o, z + 1)

\* RampTarget._gen_ramp_blocks, east-west: the calls of layers z..zsize-1
RECURSIVE RampTarget_ramp_calls(_)
RampTarget_ramp_calls(z) ==
    IF z >= zsize THEN <<>>
    ELSE LET corr == z + 1
             x == xsize - kRAMP_LENGTH_RATIO * corr
         IN  [i \in 1..ysize |-> SiliconCall("ramp", kRAMP_LENGTH_RATIO, <<x, i - 1, z>>)]
             \o RampTarget_ramp_calls(z + 1)

\* RampTarget._gen_ramp_blocks, north-south: corr is read in the first
\* iteration of the z loop and assigned nowhere before it
RampTarget_ramp_blocks_NS == IF zsize > 0 THEN "UnboundLocalError" ELSE ""

TargetClasses ==
    {"Beam1Prism", "MixedBeamPrism", "Beam1Pyramid", "Ramp", "RampTarget", "RectPrismTarget"}

\* the classes of the SILICON plugin, whose spec carries the orientation as a string
SiliconClasses == {"RampTarget", "RectPrismTarget"}

InitGen ==
    /\ dims \in (1..MaxX) \X (1..MaxY) \X (1..MaxZ)
    /\ Idle

\* __init__ of the target's class for spec['bb'] = dims
Construct ==
    /\ pc = "none"
    /\ \E cls \in TargetClasses :
         \E o \in (IF cls \in SiliconClasses THEN SpecOrientations ELSE Orientations) :
           /\ target' = [cls |-> cls, orientation |-> o]
           /\ err' = CtorError(cls, o)
           /\ pc' = IF CtorError(cls, o) = "" THEN "constructed" ELSE "ctor_failed"
    /\ UNCHANGED <<dims, nodes, edges, order, opCount, lastOp, pre, before, vds, back, todo, within, uuids, nest>>

\* gen_graph up to its first loop nest: graph = nx.Graph()
GenGraphStart ==
    /\ pc = "constructed"
    /\ target.cls \in {"Beam1Prism", "Beam1Pyramid", "Ramp"}
    /\ nodes' = <<>>
    /\ edges' = <<>>
    /\ order' = <<>>
    /\ IF target.cls = "Beam1Prism"
       THEN /\ pc' = "blocks"
            /\ todo' = Beam1Prism_calls(target.orientation)
       ELSE IF target.cls = "Beam1Pyramid"
       THEN /\ pc' = "blocks"
            /\ todo' = Beam1Pyramid_calls(target.orientation, 0)
       ELSE /\ pc' = "beam1_blocks"
            /\ todo' = Ramp_beam1_calls(target.orientation, 0)
    /\ UNCHANGED <<dims, opCount, lastOp, pre, before, vds, back, target, err, within, uuids, nest>>

\* one iteration of the running loop nest: its graph_block_add call
GenGraphStep ==
    /\ pc \in {"blocks", "beam1_blocks"}
    /\ todo # <<>>
    /\ LET call == Head(todo)
           r == graph_block_add([nodes |-> nodes, edges |-> edges],
                                call.block_type, call.c, call.z_rot)
       IN  /\ nodes' = r.nodes
           /\ edges' = r.edges
           /\ order' = order_after_add(order, nodes, call.block_type, call.c, call.z_rot)
           /\ lastOp' = [op |-> "add", block_type |-> call.block_type, c |-> call.c,
                         z_rot |-> call.z_rot, result |-> r.result]
           /\ IF r.result = "ok"
              THEN /\ todo' = Tail(todo)
                   /\ UNCHANGED <<pc, err>>
              ELSE /\ todo' = <<>>
                   /\ pc' = "failed"
                   /\ err' = r.result
    /\ pre' = [nodes |-> nodes, edges |-> edges]
    /\ before' = [op |-> lastOp, graph |-> pre]
    /\ UNCHANGED <<dims, opCount, vds, back, target, within, uuids, nest>>

\* MixedBeamPrism.gen_graph: it raises before any graph exists
MixedGenGraph ==
    /\ pc = "constructed"
    /\ target.cls = "MixedBeamPrism"
    /\ err' = MixedBeamPrism_gen_graph
    /\ pc' = IF MixedBeamPrism_gen_graph = "" THEN "done" ELSE "failed"
    /\ UNCHANGED <<dims, nodes, edges, order, opCount, lastOp, pre, before, vds, back, target, todo, within, uuids, nest>>

\* Beam1Prism.gen_graph and Beam1Pyramid.gen_graph after their loop nest:
\* return graph
GenGraphReturn ==
    /\ pc = "blocks"
    /\ todo = <<>>
    /\ pc' = "done"
    /\ UNCHANGED <<dims, nodes, edges, order, opCount, lastOp, pre, before, vds, back, target, todo, err, within, uuids, nest>>

\* Ramp.gen_graph after _gen_beam1_blocks: _gen_ramp_blocks, then return graph
GenRampBlocks ==
    /\ pc = "beam1_blocks"
    /\ todo = <<>>
    /\ err' = Ramp_gen_ramp_blocks(target.orientation)
    /\ pc' = IF Ramp_gen_ramp_blocks(target.orientation) = "" THEN "done" ELSE "failed"
    /\ UNCHANGED <<dims, nodes, edges, order, opCount, lastOp, pre, before, vds, back, target, todo, within, uuids, nest>>

\* gen_gml up to its first loop nest: graph = nx.Graph(), and the choice of
\* the branch
GenGmlStart ==
    /\ pc = "constructed"
    /\ target.cls \in SiliconClasses
    /\ nodes' = <<>>
    /\ edges' = <<>>
    /\ order' = <<>>
    /\ IF target.cls = "RampTarget"
       THEN /\ pc' = "cube_blocks"
            /\ todo' = RampTarget_cube_calls(target.orientation, 0)
            /\ err' = err
       ELSE IF target.orientation \in Orientations
       THEN /\ pc' = "gml_blocks"
            /\ todo' = RectPrismTarget_calls(target.orientation)
            /\ err' = err
       ELSE /\ pc' = "failed"
            /\ todo' = <<>>
            /\ err' = BadOrientation
    /\ UNCHANGED <<dims, opCount, lastOp, pre, before, vds, back, target, within, uuids, nest>>

\* one iteration of the running loop nest of gen_gml: its graph_block_add call
GenGmlStep ==
    /\ pc \in {"gml_blocks", "cube_blocks", "ramp_blocks"}
    /\ todo # <<>>
    /\ LET call == Head(todo)
           r == silicon_graph_block_add([nodes |-> nodes, edges |-> edges, order |-> order],
                                        call.block_type, call.length_ratio, call.c,
                                        target.orientation)
       IN  /\ nodes' = r.nodes
           /\ edges' = r.edges
           /\ order' = r.order
           /\ lastOp' = [op |-> "add", block_type |-> call.block_type, c |-> call.c,
                         z_rot |-> "", result |-> "ok"]
    /\ todo' = Tail(todo)
    /\ pre' = [nodes |-> nodes, edges |-> edges]
    /\ before' = [op |-> lastOp, graph |-> pre]
    /\ UNCHANGED <<dims, opCount, vds, back, target, pc, err, within, uuids, nest>>

\* RampTarget.gen_gml after _gen_cube_blocks: _gen_ramp_blocks up to its loop nest
GenGmlRampBlocks ==
    /\ pc = "cube_blocks"
    /\ todo = <<>>
    /\ IF target.orientation \in {"0", "PI"}
       THEN /\ pc' = "ramp_blocks"
            /\ todo' = RampTarget_ramp_calls(0)
            /\ err' = err
       ELSE /\ pc' = IF RampTarget_ramp_blocks_NS = "" THEN "done" ELSE "failed"
            /\ todo' = <<>>
            /\ err' = RampTarget_ramp_blocks_NS
    /\ UNCHANGED <<dims, nodes, edges, order, opCount, lastOp, pre, before, vds, back, target, within, uuids, nest>>

\* gen_gml after its last loop nest: return graph
GenGmlReturn ==
    /\ pc \in {"gml_blocks", "ramp_blocks"}
    /\ todo = <<>>
    /\ pc' = "done"
    /\ UNCHANGED <<dims, nodes, edges, order, opCount, lastOp, pre, before, vds, back, target, todo, err, within, uuids, nest>>

NextGen ==
    \/ Construct
    \/ GenGraphStart
    \/ GenGraphStep
    \/ MixedGenGraph
    \/ GenGraphReturn
    \/ GenRampBlocks
    \/ GenGmlStart
    \/ GenGmlStep
    \/ GenGmlRampBlocks
    \/ GenGmlReturn

SpecGen == InitGen /\ [][NextGen]_vars

---------------------------------------------------------------------------
(* Shell passes over a built graph *)

MaxShellCells == 4

\* the neighbours graph_virtual_shell_add visits around a node, in order
shell_neighbors == <<xplus1, xminus1, yplus1, yminus1, zplus1, zminus1>>

\* graph_block_add of a vbeam1 on a graph that carries its order of iteration
shell_block_add(g, c) ==
    LET r == graph_block_add([nodes |-> g.nodes, edges |-> g.edges], "vbeam1", c, "0")
    IN  [nodes |-> r.nodes, edges |-> r.edges,
         order |-> order_after_add(g.order, g.nodes, "vbeam1", c, "0")]

\* the inner loop of graph_virtual_shell_add for the node at c: neighbours
\* i..6, each one looked up in the graph as the earlier ones left it
RECURSIVE virtual_shell_visit(_, _, _)
virtual_shell_visit(g, c, i) ==
    IF i > Len(shell_neighbors) THEN g
    ELSE LET neighbor == VecAdd(c, shell_neighbors[i])
             n_vd == calc_vertex_descriptor(neighbor)
         IN  virtual_shell_visit(
                 IF ~has_node(g.nodes, n_vd) /\ coord_within_bb(neighbor)
                 THEN shell_block_add(g, neighbor)
                 ELSE g,
                 c, i + 1)

\* graph_virtual_shell_add: the outer loop over the nodes the graph had
\* when the pass began (graph.copy()), in their order of iteration
RECURSIVE graph_virtual_shell_add(_, _)
graph_virtual_shell_add(g, snapshot) ==
    IF snapshot = <<>> THEN g
    ELSE graph_virtual_shell_add(
             virtual_shell_visit(g, calc_vertex_coord(Head(snapshot)), 1),
             Tail(snapshot))

\* the coordinates graph_complement_shell_add visits, in order: i outermost,
\* k innermost
complement_coords ==
    [n \in 1..(xsize * ysize * zsize) |->
        <<(n - 1) \div (ysize * zsize), ((n - 1) \div zsize) % ysize, (n - 1) % zsize>>]

\* graph_complement_shell_add from the i-th coordinate of its loop nest on
RECURSIVE graph_complement_shell_add(_, _)
graph_complement_shell_add(g, i) ==
    IF i > Len(complement_coords) THEN g
    ELSE graph_complement_shell_add(
             IF ~has_node(g.nodes, calc_vertex_descriptor(complement_coords[i]))
             THEN shell_block_add(g, complement_coords[i])
             ELSE g,
             i + 1)

\* BaseConstructTarget.__init__ with a bounding box of at most MaxShellCells cells
InitShell ==
    /\ dims \in {d \in (1..MaxShellCells) \X (1..MaxShellCells) \X (1..MaxShellCells) :
                    d[1] * d[2] * d[3] <= MaxShellCells}
    /\ Idle

\* a block placed before the shell pass
PlaceBlock ==
    /\ pc = "none"
    /\ GraphBlockAdd

\* a block removed before the shell pass
RemoveBlock ==
    /\ pc = "none"
    /\ GraphBlockRemove

ShellPass(op, g) ==
    /\ pc = "none"
    /\ nodes' = g.nodes
    /\ edges' = g.edges
    /\ order' = g.order
    /\ lastOp' = [op |-> op, block_type |-> "", c |-> <<0, 0, 0>>, z_rot |-> "",
                  result |-> "ok"]
    /\ pre' = [nodes |-> nodes, edges |-> edges]
    /\ before' = [op |-> lastOp, graph |-> pre]
    /\ pc' = "shelled"
    /\ UNCHANGED <<dims, opCount, vds, back, target, todo, err, within, uuids, nest>>

GraphVirtualShellAdd ==
    ShellPass("virtual_shell",
              graph_virtual_shell_add([nodes |-> nodes, edges |-> edges, order |-> order],
                                      order))

GraphComplementShellAdd ==
    ShellPass("complement_shell",
              graph_complement_shell_add([nodes |-> nodes, edges |-> edges, order |-> order],
                                         1))

NextShell ==
    \/ PlaceBlock
    \/ RemoveBlock
    \/ GraphVirtualShellAdd
    \/ GraphComplementShellAdd

SpecShell == InitShell /\ [][NextShell]_vars

---------------------------------------------------------------------------
(* Target identifiers and bounds queries *)

MaxTargetId == 1

\* Python's str of an integer: its decimal digits, a minus sign first when negative
RECURSIVE str(_)
str(n) ==
    IF n < 0 THEN "-" \o str(-n)
    ELSE IF n < 10 THEN <<"0", "1", "2", "3", "4", "5", "6", "7", "8", "9">>[n + 1]
    ELSE str(n \div 10) \o str(n % 10)

\* the classes of the PRISM plugin that carry a uuid
UuidClasses == {"Beam1Prism", "MixedBeamPrism", "Beam1Pyramid", "Ramp"}

\* the static method uuid of each class
uuid(cls, target_id) ==
    CASE cls = "Beam1Prism" -> "pyramid" \o str(target_id)
      [] cls = "MixedBeamPrism" -> "pyramid" \o str(target_id)
      [] cls = "Beam1Pyramid" -> "pyramid" \o str(target_id)
      [] cls = "Ramp" -> "ramp" \o str(target_id)

InitUuid ==
    /\ dims = <<1, 1, 1>>
    /\ Idle

Uuid ==
    /\ \E cls \in UuidClasses, target_id \in 0..MaxTargetId :
         /\ <<cls, target_id>> \notin DOMAIN uuids
         /\ uuids' = [k \in (DOMAIN uuids) \cup {<<cls, target_id>>} |->
                         IF k = <<cls, target_id>> THEN uuid(cls, target_id) ELSE uuids[k]]
    /\ UNCHANGED <<dims, nodes, edges, order, opCount, lastOp, pre, before, vds, back, target, pc, todo, err, within, nest>>

NextUuid == Uuid

SpecUuid == InitUuid /\ [][NextUuid]_vars

\* the coordinates coord_within_bb is asked about: the box and one cell
\* around it on every side
ProbeCoords == {<<x, y, z>> : x \in (-1)..xsize, y \in (-1)..ysize, z \in (-1)..zsize}

CoordWithinBb ==
    /\ \E c \in ProbeCoords :
         within' = [called |-> TRUE, c |-> c, result |-> coord_within_bb(c)]
    /\ UNCHANGED <<dims, nodes, edges, order, opCount, lastOp, pre, before, vds, back, target, pc, todo, err, uuids, nest>>

NextBounds == CoordWithinBb

SpecBounds == InitIndex /\ [][NextBounds]_vars

---------------------------------------------------------------------------
(* Nest (projects/titan/variables/nest.py)                                 *)
(*                                                                         *)
(* An ArenaExtent is given by its upper right corner <<x, y>>, its lower   *)
(* left one being the origin; None as an extent has no corner.  An XMLTagAddList is the         *)
(* sequence of its tags; it is false as a condition when it is empty, as   *)
(* is the list self.tag_adds starts as.  A formatted number is kept as the *)
(* number it is formatted from, in thousandths; a power of the area is     *)
(* kept as the pair of the area and the exponent.                          *)

MaxArena == 2
MaxCalls == 2

\* None as a distribution type, and as an extent
None == "None"
NoExtent == [ur |-> <<>>]

Sources == {"direct", "arena", "file"}
DistTypes == {"SS", "DS", "QS", "PL", "RN", None}
Extents == {NoExtent} \cup {[ur |-> <<x, y>>] : x \in 1..MaxArena, y \in 1..MaxArena}

XMLTagAdd(path, tag, attr) == [path |-> path, tag |-> tag, attr |-> attr]

area(e) == e.ur[1] * e.ur[2]

\* the tags of a nest of the given dims and center: the one of the arena
\* map, with its light, and the one of the parameters
nest_tags(dims_, center, arena) ==
    <<XMLTagAdd(".//arena_map/nests", "nest",
                [dims |-> dims_, center |-> center,
                 light_height |-> <<area(arena), "0.25">>,
                 light_intensity |-> <<area(arena), "0.5">>]),
      XMLTagAdd(".//params", "nest", [dims |-> dims_, center |-> center])>>

\* Nest.gen_adds_direct: the list, or the exception of reading .ur of None
gen_adds_direct(n) ==
    IF n.nest = NoExtent \/ n.arena = NoExtent
    THEN [result |-> "AttributeError", adds |-> <<>>]
    ELSE [result |-> "ok",
          adds |-> nest_tags(<<n.nest.ur[1] * 1000, n.nest.ur[2] * 1000>>,
                             <<n.nest.ur[1] * 1000, n.nest.ur[2] * 1000>>, n.arena)]

\* Nest.gen_adds_from_arena
gen_adds_from_arena(n) ==
    IF n.dist_type \in {"SS", "DS", "PL", "RN", "QS"}
    THEN IF n.arena = NoExtent
         THEN [result |-> "AttributeError", adds |-> <<>>]
         ELSE [result |-> "ok",
               adds |-> CASE n.dist_type = "SS" ->
                               nest_tags(<<n.arena.ur[1] * 100, n.arena.ur[2] * 800>>,
                                         <<n.arena.ur[1] * 100, n.arena.ur[2] * 500>>, n.arena)
                          [] n.dist_type = "DS" ->
                               nest_tags(<<n.arena.ur[1] * 100, n.arena.ur[2] * 800>>,
                                         <<n.arena.ur[1] * 500, n.arena.ur[2] * 500>>, n.arena)
                          [] OTHER ->
                               nest_tags(<<n.arena.ur[1] * 200, n.arena.ur[2] * 200>>,
                                         <<n.arena.ur[1] * 500, n.arena.ur[2] * 500>>, n.arena)]
    ELSE [result |-> "NotImplementedError", adds |-> <<>>]

\* the root tag gen_tag_addlist prepends
nests_root == XMLTagAdd(".//arena_map", "nests", <<>>)

\* gen_tag_addlist as it would be if it prepended the root tag on every call
gen_tag_addlist_prepend_again(n) ==
    IF n.tag_adds # <<>>
    THEN [result |-> "ok", value |-> <<(<<nests_root>> \o n.tag_adds)>>,
          tag_adds |-> <<nests_root>> \o n.tag_adds]
    ELSE LET r == IF n.src = "direct" THEN gen_adds_direct(n)
                  ELSE IF n.src = "arena" THEN gen_adds_from_arena(n)
                  ELSE [result |-> "AssertionError", adds |-> <<>>]
         IN  IF r.result # "ok"
             THEN [result |-> r.result, value |-> <<>>, tag_adds |-> n.tag_adds]
             ELSE [result |-> "ok", value |-> <<(<<nests_root>> \o r.adds)>>,
                   tag_adds |-> <<nests_root>> \o r.adds]

\* Nest.gen_tag_addlist on the Nest n: the outcome, the list returned (a
\* list of one tag list) and self.tag_adds as the call leaves it
gen_tag_addlist(n) ==
    IF n.tag_adds # <<>>
    THEN [result |-> "ok", value |-> <<n.tag_adds>>, tag_adds |-> n.tag_adds]
    ELSE LET r == IF n.src = "direct" THEN gen_adds_direct(n)
                  ELSE IF n.src = "arena" THEN gen_adds_from_arena(n)
                  ELSE [result |-> "AssertionError", adds |-> <<>>]
         IN  IF r.result # "ok"
             THEN [result |-> r.result, value |-> <<>>, tag_adds |-> n.tag_adds]
             ELSE [result |-> "ok", value |-> <<(<<nests_root>> \o r.adds)>>,
                   tag_adds |-> <<nests_root>> \o r.adds]

NoReturn == [result |-> "", value |-> <<>>]

InitNest ==
    /\ dims = <<1, 1, 1>>
    /\ Idle

\* Nest.__init__
NestConstruct ==
    /\ nest = NoNest
    /\ \E src \in Sources, dist_type \in DistTypes, n \in Extents, a \in Extents :
         nest' = [src |-> src, dist_type |-> dist_type, nest |-> n, arena |-> a,
                  tag_adds |-> <<>>, calls |-> 0, first |-> NoReturn, last |-> NoReturn]
    /\ UNCHANGED <<dims, nodes, edges, order, opCount, lastOp, pre, before, vds, back, target, pc, todo, err, within, uuids>>

\* a call of Nest.gen_tag_addlist
GenTagAddlist ==
    /\ nest # NoNest
    /\ nest.calls < MaxCalls
    /\ LET r == gen_tag_addlist(nest)
           ret == [result |-> r.result, value |-> r.value]
       IN  nest' = [nest EXCEPT !.tag_adds = r.tag_adds,
                                !.calls = @ + 1,
                                !.first = IF nest.calls = 0 THEN ret ELSE @,
                                !.last = ret]
    /\ UNCHANGED <<dims, nodes, edges, order, opCount, lastOp, pre, before, vds, back, target, pc, todo, err, within, uuids>>

NextNest ==
    \/ NestConstruct
    \/ GenTagAddlist

SpecNest == InitNest /\ [][NextNest]_vars

---------------------------------------------------------------------------
(* Properties: grid index *)

\* C1: for every in-bounds coordinate c whose descriptor was computed and
\* converted back, calc_vertex_coord(calc_vertex_descriptor(c)) equals c
C1_RoundTrip ==
    \A c \in DOMAIN vds : vds[c] \in DOMAIN back => back[vds[c]] = c

\* C2: calc_vertex_descriptor gives two distinct in-bounds coordinates
\* distinct descriptors
C2_Injective ==
    \A c1 \in DOMAIN vds : \A c2 \in DOMAIN vds : c1 # c2 => vds[c1] # vds[c2]

---------------------------------------------------------------------------
(* Properties: block insertion and removal *)

Graph == [nodes |-> nodes, edges |-> edges]

AddOk == lastOp.op = "add" /\ lastOp.result = "ok"

\* the anchor's descriptor of the last operation
LastVd == calc_vertex_descriptor(lastOp.c)

AddThenRemove ==
    /\ lastOp.op = "remove"
    /\ lastOp.result = "ok"
    /\ before.op.op = "add"
    /\ before.op.result = "ok"
    /\ before.op.c = lastOp.c

\* the descriptor of the extent neighbour of a block at anchor c
ExtentVd(block_type, c, z_rot) ==
    calc_vertex_descriptor(VecAdd(c, VecMul(ForwardStep(z_rot), extents(block_type))))

\* whether an add of the block on node set N has to synthesize its placeholder
Synthesizes(N, block_type, c, z_rot) ==
    extents(block_type) > 1 /\ ~has_node(N, ExtentVd(block_type, c, z_rot))

\* the graph after graph_block_add and then graph_block_remove at anchor c
AddRemove(g, block_type, c, z_rot) ==
    LET a == graph_block_add(g, block_type, c, z_rot)
    IN  graph_block_remove([nodes |-> a.nodes, edges |-> a.edges], c)

\* C4 (as stated): an add followed immediately by a remove at the same anchor
\* leaves the node set and the edge set as they were before the add, for
\* every block kind and rotation
C4_AddRemoveRestores ==
    AddThenRemove =>
        /\ DOMAIN nodes = DOMAIN before.graph.nodes
        /\ edges = before.graph.edges

\* C4 (amended): the add followed by the remove restores the edge set for
\* every kind and rotation; it restores the node set when the kind has
\* length 1 or the extent neighbour's descriptor already held a node, and
\* otherwise the node set has gained exactly the placeholder. Stated of the
\* last two operations, and of every add that a graph reached with an
\* operation to spare admits.
C4_AddRemoveAmended ==
    /\ AddThenRemove =>
         /\ edges = before.graph.edges
         /\ \A d \in DOMAIN before.graph.nodes :
              d \in DOMAIN nodes /\ nodes[d] = before.graph.nodes[d]
         /\ DOMAIN nodes =
              IF Synthesizes(before.graph.nodes, before.op.block_type,
                             before.op.c, before.op.z_rot)
              THEN (DOMAIN before.graph.nodes)
                     \cup {ExtentVd(before.op.block_type, before.op.c, before.op.z_rot)}
              ELSE DOMAIN before.graph.nodes
    /\ \A block_type \in BlockTypes, c \in Coords, z_rot \in Orientations :
         (opCount < MaxOps /\ ~has_node(nodes, calc_vertex_descriptor(c))) =>
            LET r == AddRemove(Graph, block_type, c, z_rot)
            IN  /\ r.result = "ok"
                /\ r.edges = edges
                /\ IF Synthesizes(nodes, block_type, c, z_rot)
                   THEN /\ DOMAIN r.nodes =
                             (DOMAIN nodes) \cup {ExtentVd(block_type, c, z_rot)}
                        /\ \A d \in DOMAIN nodes : r.nodes[d] = nodes[d]
                   ELSE r.nodes = nodes

\* a graph with a node, on which an add at a free anchor links the anchor to
\* a neighbour and the remove takes the anchor away again, and on which a
\* block longer than one cell finds its extent neighbour present
C4_Witness ==
    /\ lastOp.op = "add"
    /\ lastOp.result = "ok"
    /\ opCount < MaxOps
    /\ \E c \in Coords :
         /\ ~has_node(nodes, calc_vertex_descriptor(c))
         /\ DOMAIN graph_block_add(Graph, "beam1", c, "0").edges # DOMAIN edges
         /\ AddRemove(Graph, "beam1", c, "0").result = "ok"
    /\ \E block_type \in {"beam2", "beam3"}, c \in Coords, z_rot \in Orientations :
         /\ ~has_node(nodes, calc_vertex_descriptor(c))
         /\ has_node(nodes, ExtentVd(block_type, c, z_rot))

\* the last two operations were successful adds at distinct anchors
TwoAdds ==
    /\ AddOk
    /\ before.op.op = "add"
    /\ before.op.result = "ok"
    /\ before.op.c # lastOp.c

\* the two blocks of the last two adds, inserted in the opposite order
Swapped ==
    LET first == graph_block_add(before.graph, lastOp.block_type, lastOp.c, lastOp.z_rot)
        second == graph_block_add([nodes |-> first.nodes, edges |-> first.edges],
                                  before.op.block_type, before.op.c, before.op.z_rot)
    IN  [ok |-> first.result = "ok" /\ second.result = "ok", edges |-> second.edges]

\* C5: two blocks with distinct in-bounds anchors give the same final edge
\* set (endpoints and weights) in either order of insertion
C5_OrderIndependent ==
    (TwoAdds /\ Swapped.ok) => Swapped.edges = edges

\* C6: after an add of a block of length L > 1 a node exists at the extent
\* neighbour, an edge of weight L joins the anchor to it, and that node is
\* unchanged when it existed before and a vbeam1 node otherwise
C6_ExtentEdge ==
    (AddOk /\ extents(lastOp.block_type) > 1) =>
        LET evd == ExtentVd(lastOp.block_type, lastOp.c, lastOp.z_rot)
        IN  /\ has_node(nodes, evd)
            /\ {LastVd, evd} \in DOMAIN edges
            /\ edges[{LastVd, evd}] = extents(lastOp.block_type)
            /\ IF has_node(pre.nodes, evd)
               THEN nodes[evd] = pre.nodes[evd]
               ELSE nodes[evd].type = "vbeam1"

\* the six unit steps
UnitSteps == {xplus1, xminus1, yplus1, yminus1, zplus1, zminus1}

\* C7: an add links the anchor with weight 1 to every in-bounds node already
\* present among its unit-step neighbours, the forward one excepted when the
\* block is longer than one cell
C7_NeighbourEdges ==
    AddOk =>
        \A n \in UnitSteps :
            LET nb == VecAdd(lastOp.c, n)
                n_vd == calc_vertex_descriptor(nb)
            IN  ( /\ ~(extents(lastOp.block_type) > 1 /\ n = ForwardStep(lastOp.z_rot))
                  /\ coord_within_bb(nb)
                  /\ has_node(pre.nodes, n_vd) )
                => ({LastVd, n_vd} \in DOMAIN edges /\ edges[{LastVd, n_vd}] = 1)

---------------------------------------------------------------------------
(* Properties: structure generators *)

\* gen_graph has ended, by returning the graph or by an exception
GenEnded == pc \in {"done", "failed"}

\* two coordinates one unit step apart
Adjacent(a, b) == \E n \in UnitSteps : b = VecAdd(a, n)

\* the coordinates whose node (that of their descriptor) is anchored at them
NodeAt(c) ==
    /\ has_node(nodes, calc_vertex_descriptor(c))
    /\ nodes[calc_vertex_descriptor(c)].anchor = c

\* C8: Beam1Prism.gen_graph returns, for every bounding box and orientation,
\* a graph of X*Y*Z nodes, one at each coordinate, whose edges are exactly
\* the pairs of coordinates one unit step apart, each of weight 1
C8_DensePrism ==
    (target.cls = "Beam1Prism" /\ GenEnded) =>
        /\ pc = "done"
        /\ Cardinality(DOMAIN nodes) = xsize * ysize * zsize
        /\ \A c \in Coords : NodeAt(c)
        /\ DOMAIN edges =
             {{calc_vertex_descriptor(a), calc_vertex_descriptor(b)} :
                 <<a, b>> \in {p \in Coords \X Coords : Adjacent(p[1], p[2])}}
        /\ \A p \in DOMAIN edges : edges[p] = 1

\* C9: Ramp.gen_graph for an east-west orientation and bounding box (4,2,1)
\* returns a graph with, in each row y, beam1 blocks at x = 0 and x = 1 and
\* one ramp block anchored at x = 2
C9_RampGraph ==
    (target.cls = "Ramp" /\ is_EW(target.orientation) /\ dims = <<4, 2, 1>> /\ GenEnded) =>
        /\ pc = "done"
        /\ \A y \in 0..1 :
             /\ NodeAt(<<0, y, 0>>) /\ nodes[calc_vertex_descriptor(<<0, y, 0>>)].type = "beam1"
             /\ NodeAt(<<1, y, 0>>) /\ nodes[calc_vertex_descriptor(<<1, y, 0>>)].type = "beam1"
             /\ NodeAt(<<2, y, 0>>) /\ nodes[calc_vertex_descriptor(<<2, y, 0>>)].type = "ramp"
        /\ Cardinality(DOMAIN nodes) = 6

\* a ramp target of either plugin with one of the four orientations
IsRamp == target.cls \in {"Ramp", "RampTarget"} /\ target.orientation \in Orientations

\* the bounding-box size along the orientation's major axis
MajorSize == IF target.orientation \in {"0", "PI"} THEN dims[1] ELSE dims[2]

\* C10: a ramp target whose size along the major axis is not a multiple of 2
\* fails in its constructor, with no graph and no block placed, then or
\* later; one whose size is a multiple of 2 is constructed
C10_RampConstruction ==
    IsRamp =>
        /\ MajorSize % 2 # 0 =>
             /\ pc = "ctor_failed"
             /\ err = "AssertionError"
             /\ nodes = <<>> /\ edges = <<>>
             /\ todo = <<>>
             /\ lastOp = NoOp
        /\ MajorSize % 2 = 0 => pc # "ctor_failed"

\* a north-south Ramp refused for its odd Y although its X is even
C10_Witness ==
    /\ target.cls = "Ramp"
    /\ is_NS(target.orientation)
    /\ dims[2] % 2 = 1
    /\ dims[1] % 2 = 0
    /\ pc = "ctor_failed"

---------------------------------------------------------------------------
(* Properties: shell passes *)

\* whether some node of N is anchored at coordinate c
Occupied(N, c) == \E d \in DOMAIN N : N[d].anchor = c

\* whether every node of N is anchored inside the bounding box
AllInBounds(N) == \A d \in DOMAIN N : N[d].anchor \in Coords

\* the descriptors the last operation gave a node to
Added == (DOMAIN nodes) \ (DOMAIN pre.nodes)

\* the in-bounds coordinates unoccupied on N and one unit step from a node of N
VirtualShell(N) ==
    {c \in Coords : ~Occupied(N, c) /\ \E n \in UnitSteps : Occupied(N, VecAdd(c, n))}

\* C11: on a graph of in-bounds nodes, graph_virtual_shell_add adds a vbeam1
\* node at exactly the in-bounds coordinates that were unoccupied before the
\* pass and are one unit step from a node that existed before it, one node
\* per coordinate, and leaves the earlier nodes as they were
C11_VirtualShell ==
    (lastOp.op = "virtual_shell" /\ AllInBounds(pre.nodes)) =>
        /\ {nodes[d].anchor : d \in Added} = VirtualShell(pre.nodes)
        /\ Cardinality(Added) = Cardinality(VirtualShell(pre.nodes))
        /\ \A d \in Added : nodes[d].type = "vbeam1"
        /\ \A d \in DOMAIN pre.nodes : has_node(nodes, d) /\ nodes[d] = pre.nodes[d]

\* whether every node of N is an in-bounds block of length 1
UnitBlocks(N) == AllInBounds(N) /\ \A d \in DOMAIN N : extents(N[d].type) = 1

\* C12: after graph_complement_shell_add on a graph built from in-bounds
\* length-1 blocks, every lattice coordinate holds a node and the graph has
\* exactly X*Y*Z nodes; the nodes present before the pass keep their
\* attributes and every node the pass added is a vbeam1
C12_ComplementShell ==
    (lastOp.op = "complement_shell" /\ UnitBlocks(pre.nodes)) =>
        /\ \A c \in Coords : Occupied(nodes, c)
        /\ Cardinality(DOMAIN nodes) = xsize * ysize * zsize
        /\ \A d \in DOMAIN pre.nodes : has_node(nodes, d) /\ nodes[d] = pre.nodes[d]
        /\ \A d \in Added : nodes[d].type = "vbeam1"

---------------------------------------------------------------------------
(* Properties: removal, bounds *)

\* C13: on a graph of in-bounds nodes, graph_block_remove at a coordinate
\* that holds a node removes that node and every edge incident to it and
\* nothing else; at a coordinate that holds no node it fails and leaves the
\* graph unchanged
C13_Remove ==
    (lastOp.op = "remove" /\ AllInBounds(pre.nodes)) =>
        IF Occupied(pre.nodes, lastOp.c)
        THEN /\ lastOp.result = "ok"
             /\ nodes = [d \in {e \in DOMAIN pre.nodes : pre.nodes[e].anchor # lastOp.c} |->
                            pre.nodes[d]]
             /\ edges = [p \in {q \in DOMAIN pre.edges :
                                  \A e \in q : pre.nodes[e].anchor # lastOp.c} |->
                            pre.edges[p]]
        ELSE /\ lastOp.result = "NetworkXError"
             /\ nodes = pre.nodes
             /\ edges = pre.edges

---------------------------------------------------------------------------
(* Properties: MixedBeamPrism, Beam1Pyramid *)

\* C14: MixedBeamPrism.gen_graph never returns a graph: once called it has
\* failed with NotImplementedError (manual specification required), with no
\* node and no edge produced
C14_MixedFails ==
    target.cls = "MixedBeamPrism" =>
        /\ pc \in {"constructed", "failed"}
        /\ pc = "failed" =>
             /\ err = "NotImplementedError"
             /\ nodes = <<>> /\ edges = <<>>
             /\ lastOp = NoOp

\* a MixedBeamPrism whose gen_graph was called
C14_Witness ==
    /\ target.cls = "MixedBeamPrism"
    /\ pc = "failed"
    /\ err = "NotImplementedError"

\* the coordinates of a stepped pyramid in the bounding box
PyramidCoords ==
    {c \in Coords : c[3] <= c[1] /\ c[1] < xsize - c[3] /\ c[3] <= c[2] /\ c[2] < ysize - c[3]}

\* C15: Beam1Pyramid.gen_graph returns, for the east-west and the north-south
\* orientations alike, a graph of length-1 blocks at exactly the coordinates
\* (x, y, z) with 0 <= z < Z, z <= x < X - z and z <= y < Y - z, one node per
\* coordinate
C15_Pyramid ==
    (target.cls = "Beam1Pyramid" /\ GenEnded) =>
        /\ pc = "done"
        /\ {nodes[d].anchor : d \in DOMAIN nodes} = PyramidCoords
        /\ Cardinality(DOMAIN nodes) = Cardinality(PyramidCoords)
        /\ \A d \in DOMAIN nodes : nodes[d].type = "beam1"

\* C16: after any sequence of graph_block_add calls with in-bounds anchors,
\* no node lies outside the bounding box and no edge has an endpoint outside it
C16_InBounds ==
    /\ \A d \in DOMAIN nodes : nodes[d].anchor \in Coords
    /\ \A p \in DOMAIN edges : \A d \in p : has_node(nodes, d) /\ nodes[d].anchor \in Coords

---------------------------------------------------------------------------
(* Properties: identifiers, bounds test, placeholders *)

\* C18: for one target id the uuid strings of Beam1Prism, MixedBeamPrism,
\* Beam1Pyramid and Ramp are pairwise different, and Ramp's is "ramp"
\* followed by the id
C18_UuidDistinct ==
    /\ \A k1, k2 \in DOMAIN uuids :
         (k1[2] = k2[2] /\ k1[1] # k2[1]) => uuids[k1] # uuids[k2]
    /\ \A k \in DOMAIN uuids : k[1] = "Ramp" => uuids[k] = "ramp" \o str(k[2])

\* C19: coord_within_bb(c) is false exactly when some component of c is
\* negative or is greater than or equal to the extent's dimension on its axis
C19_WithinBb ==
    within.called =>
        (within.result = FALSE <=>
            \E i \in 1..3 : within.c[i] < 0 \/ within.c[i] >= dims[i])

\* a coordinate refused only because its x equals the extent's X
C19_Witness ==
    /\ within.called
    /\ within.c[1] = dims[1]
    /\ within.c[2] \in 0..(dims[2] - 1)
    /\ within.c[3] \in 0..(dims[3] - 1)
    /\ within.result = FALSE

\* the coordinate a long block's far end lies at
ExtentCoord(block_type, c, z_rot) ==
    VecAdd(c, VecMul(ForwardStep(z_rot), extents(block_type)))

\* the last add names the in-bounds coordinate at which the add before it,
\* of a long block, synthesized its placeholder
FillsPlaceholder ==
    /\ lastOp.op = "add"
    /\ lastOp.block_type # "vbeam1"
    /\ before.op.op = "add"
    /\ before.op.result = "ok"
    /\ Synthesizes(before.graph.nodes, before.op.block_type, before.op.c, before.op.z_rot)
    /\ lastOp.c = ExtentCoord(before.op.block_type, before.op.c, before.op.z_rot)
    /\ lastOp.c \in Coords

\* the far-end block inserted first and the long block second
FarEndFirst ==
    LET a == graph_block_add(before.graph, lastOp.block_type, lastOp.c, lastOp.z_rot)
    IN  graph_block_add([nodes |-> a.nodes, edges |-> a.edges],
                        before.op.block_type, before.op.c, before.op.z_rot)

\* C20: a graph_block_add of a physical block at the coordinate where a long
\* block synthesized its placeholder succeeds and makes that node physical,
\* and the graph is the one the opposite order of the two adds gives
C20_PlaceholderFill ==
    FillsPlaceholder =>
        /\ lastOp.result = "ok"
        /\ nodes[LastVd].type = lastOp.block_type
        /\ nodes = FarEndFirst.nodes
        /\ edges = FarEndFirst.edges

---------------------------------------------------------------------------
(* Properties: ramp targets of the SILICON plugin *)

\* an east-west RampTarget
RampTargetEW == target.cls = "RampTarget" /\ target.orientation \in {"0", "PI"}

\* the coordinates of the nodes of a colour
Colored(color) == {c \in DOMAIN nodes : nodes[c].color = color}

\* the first cell of layer z that the cube phase leaves out
RampStart(z) == xsize - kRAMP_LENGTH_RATIO * (z + 1)

\* the cells the cube phase has to fill
CubeCells == {c \in Coords : c[1] < RampStart(c[3])}

\* whether the ramp block anchored at r covers cell c
Covers(r, c) == r[2] = c[2] /\ r[3] = c[3] /\ r[1] <= c[1] /\ c[1] < r[1] + kRAMP_LENGTH_RATIO

\* C21: for an east-west RampTarget the ramp phase places nothing before the
\* cube phase has finished; the graph returned has its cubes at exactly the
\* cells with x < X - 2(z+1), one ramp block per row and layer anchored at
\* x = X - 2(z+1), and every cell of the excluded region under a ramp block
C21_RampEW ==
    RampTargetEW =>
        /\ pc = "cube_blocks" => Colored("r") = {}
        /\ pc = "ramp_blocks" => Colored("b") = CubeCells
        /\ pc = "done" =>
             /\ Colored("b") = CubeCells
             /\ Colored("r") = {<<RampStart(z), y, z>> : y \in 0..(ysize - 1), z \in 0..(zsize - 1)}
             /\ \A c \in Coords \ CubeCells : \E r \in Colored("r") : Covers(r, c)

\* a north-south ramp target of either plugin that was constructed
RampNS ==
    /\ target.cls \in {"Ramp", "RampTarget"}
    /\ target.orientation \in {"PI/2", "3PI/2"}
    /\ pc \notin {"none", "ctor_failed"}

\* C22: for a north-south ramp target whose Y size is a multiple of 2, graph
\* generation completes, and the graph returned has on every layer z and for
\* every x a ramp block anchored at y = Y - 2(z+1)
C22_RampNS ==
    (RampNS /\ GenEnded) =>
        /\ pc = "done"
        /\ \A x \in 0..(xsize - 1), z \in 0..(zsize - 1) :
             \E d \in DOMAIN nodes :
                nodes[d] \in {[color |-> "r", pos |-> <<x, ysize - 2 * (z + 1), z>>],
                              NodeAttrs("ramp2", <<x, ysize - 2 * (z + 1), z>>,
                                        target.orientation)}

\* C23: every anchor a ramp target hands to graph_block_add while it
\* generates its graph lies inside the bounding box
C23_AnchorsInBounds ==
    (IsRamp /\ lastOp.op = "add") => lastOp.c \in Coords

\* C24: in the graph returned by RampTarget.gen_gml or RectPrismTarget.gen_gml
\* every node is the anchor of a block the generator placed: it carries that
\* block's color and its own coordinate as pos
C24_NodesAreAnchors ==
    (target.cls \in SiliconClasses /\ pc = "done") =>
        \A c \in DOMAIN nodes : nodes[c].color \in {"b", "r"} /\ nodes[c].pos = c

---------------------------------------------------------------------------
(* Properties: frame of graph_block_add, Nest *)

\* C25: a successful graph_block_add of a length-1 block at anchor c adds
\* exactly one node, the one of c's descriptor, adds only edges incident to
\* it, and leaves every other node's attributes and every edge that existed
\* before the call (endpoints and weight) as they were
C25_UnitAddFrame ==
    (AddOk /\ extents(lastOp.block_type) = 1) =>
        /\ ~has_node(pre.nodes, LastVd)
        /\ DOMAIN nodes = (DOMAIN pre.nodes) \cup {LastVd}
        /\ nodes[LastVd] = NodeAttrs(lastOp.block_type, lastOp.c, lastOp.z_rot)
        /\ \A d \in DOMAIN pre.nodes : nodes[d] = pre.nodes[d]
        /\ \A p \in DOMAIN pre.edges : p \in DOMAIN edges /\ edges[p] = pre.edges[p]
        /\ \A p \in (DOMAIN edges) \ (DOMAIN pre.edges) : LastVd \in p

\* a length-1 block added next to a node of a graph that already has an edge
C25_Witness ==
    /\ AddOk
    /\ extents(lastOp.block_type) = 1
    /\ pre.edges # <<>>
    /\ (DOMAIN edges) \ (DOMAIN pre.edges) # {}

\* the number of tags of the list that are the root tag
RootCount(adds) == Cardinality({i \in DOMAIN adds : adds[i] = nests_root})

\* C26: once a call of gen_tag_addlist has returned, every later call
\* returns the same list as the first one; the list is the one stored in
\* self.tag_adds, its first tag is the root tag "nests" and no other is
C26_TagAddlistOnce ==
    (nest # NoNest /\ nest.calls >= 1 /\ nest.first.result = "ok") =>
        /\ nest.last = nest.first
        /\ nest.last.value = <<nest.tag_adds>>
        /\ Head(nest.tag_adds) = nests_root
        /\ RootCount(nest.tag_adds) = 1
        /\ Len(nest.tag_adds) = 3

\* a Nest built from the arena whose gen_tag_addlist was called a second time
C26_Witness ==
    /\ nest # NoNest
    /\ nest.src = "arena"
    /\ nest.calls >= 2
    /\ nest.first.result = "ok"
    /\ nest.last.result = "ok"

===========================================================================
